---- MODULE Spec2Model ----
(***************************************************************************)
(* A model of orbitx/state.py: PhysicsState, the state container that      *)
(* keeps a structured snapshot (protos.PhysicalState) and a flat,          *)
(* field-major float buffer (the y-vector) side by side, and _EntityView,  *)
(* the per-entity accessor that indexes into both.                         *)
(*                                                                         *)
(* Floats are modelled on a grid: a float is an integer number of          *)
(* 1/Scale units, so float(i) is i * Scale, int(v) truncates towards 0 and *)
(* bool(v) is v # 0.  Buffer slots and list positions are 0-based as in    *)
(* the source; At and Put translate to TLA+'s 1-based sequences.           *)
(***************************************************************************)
EXTENDS Integers, Sequences, FiniteSets, TLC

\* ------------------------------------------------------------------ bounds

\* The largest number of entities of a snapshot.
MaxN == 2

\* The largest number of operations applied to one state after construction.
MaxSteps == 2

\* Resolution of the float grid: one unit of a modelled float is 1/Scale.
Scale == 2

\* ------------------------------------------------------- program constants

\* PhysicsState.NO_INDEX: the landed_on slot of an entity that is not landed.
NO_INDEX == -1

\* PhysicsState.N_SINGULAR_ELEMENTS: single values at the end of the y-vector.
N_SINGULAR_ELEMENTS == 2

\* PhysicsState.SRB_TIME_INDEX and TIME_ACC_INDEX: offsets from the end.
SRB_TIME_INDEX == -2

TIME_ACC_INDEX == -1

\* 2 * np.pi, in units of the float grid (the heading modulus).
TwoPi == 8

\* common.HABITAT and common.AYSE: the names of the two pilotable entities.
HABITAT == "Habitat"

AYSE == "AYSE"

\* ------------------------------------------------------------ field layout

\* _PER_ENTITY_UNCHANGING_FIELDS.
UnchangingFields ==
    <<"name", "mass", "r", "artificial", "atmosphere_thickness",
      "atmosphere_scaling">>

\* _PER_ENTITY_MUTABLE_FIELDS: every other field of protos.Entity, in the
\* order of its declaration.
MutableFields ==
    <<"x", "y", "vx", "vy", "heading", "spin", "fuel", "throttle",
      "landed_on", "broken">>

\* The mutable fields of float type (the ones a per-field slice exists for).
NumericFields ==
    {"x", "y", "vx", "vy", "heading", "spin", "fuel", "throttle"}

Range(s) == {s[i] : i \in DOMAIN s}

\* len(_PER_ENTITY_MUTABLE_FIELDS), the k of the buffer layout.
K == Len(MutableFields)

\* _FIELD_ORDERING[name]: the 0-based block of a mutable field.
FieldOrdering(name) == (CHOOSE i \in DOMAIN MutableFields : MutableFields[i] = name) - 1

\* ------------------------------------------------------------- conversions

\* float(i) for an integer i (an index stored into the float buffer).
ToFloat(i) == i * Scale

\* float(b) for a boolean b: True is 1.0, False is 0.0.
BoolToFloat(b) == IF b THEN ToFloat(1) ELSE ToFloat(0)

\* int(v) for a float v: truncation towards zero.
ToInt(v) == IF v >= 0 THEN v \div Scale ELSE -((-v) \div Scale)

\* bool(v) for a float v.
ToBool(v) == v # 0

\* a[b] for a 0-based position b of a sequence.
At(a, b) == a[b + 1]

\* a with a[b] = v, for a 0-based position b.
Put(a, b, v) == [a EXCEPT ![b + 1] = v]

\* a[i] as Python resolves a negative index: from the end.
PyIndex(a, i) == IF i < 0 THEN Len(a) + i ELSE i

\* ------------------------------------------------------------ the snapshot

\* One protos.Entity.
MkEntity(name, p, landed) ==
    [name |-> name,
     mass |-> 40 + p,
     r |-> 50 + p,
     artificial |-> (name \in {HABITAT, AYSE}),
     atmosphere_thickness |-> IF p = 1 THEN 0 ELSE 60 + p,
     atmosphere_scaling |-> IF p = 3 THEN 0 ELSE 70 + p,
     x |-> p,
     y |-> 10 + p,
     vx |-> -(20 + p),
     vy |-> 30 + p,
     heading |-> CASE p = 1 -> 3 [] p = 2 -> TwoPi + 3 [] OTHER -> -3,
     spin |-> 80 + p,
     fuel |-> 90 + p,
     throttle |-> p - 1,
     landed_on |-> landed,
     broken |-> (p = 2)]

\* The names entities are drawn from.
Names == {HABITAT, AYSE, "Earth"}

\* The sequences of n distinct names.
NameSeqs(n) ==
    {s \in [1..n -> Names] : \A i, j \in 1..n : s[i] = s[j] => i = j}

\* The landed_on columns: nobody landed, or one entity landed on one name
\* (a name of the snapshot, the entity's own, or a name the snapshot lacks).
LandedSeqs(n) ==
    {[i \in 1..n |-> ""]}
    \cup {[i \in 1..n |-> IF i = k THEN nm ELSE ""] : k \in 1..n, nm \in Names}

Seeds == {0, 1, 2}

\* One protos.PhysicalState.
MkSnapshot(names, seed, landed) ==
    [entities |-> [i \in 1..Len(names) |->
                      MkEntity(names[i], ((seed + i) % 3) + 1, landed[i])],
     timestamp |-> 100 + seed,
     srb_time |-> 110 + seed,
     time_acc |-> 1 + seed,
     parachute_deployed |-> (seed = 1),
     reference |-> "Earth",
     target |-> AYSE,
     navmode |-> seed]

\* The snapshots a loader hands to the constructor.
Snapshots ==
    UNION {{MkSnapshot(names, seed, landed) :
                names \in NameSeqs(n), seed \in Seeds, landed \in LandedSeqs(n)} :
           n \in 0..MaxN}

\* protos.PhysicalState(): no entities, every scalar at its default.
EmptyProto ==
    [entities |-> <<>>, timestamp |-> 0, srb_time |-> 0, time_acc |-> 0,
     parachute_deployed |-> FALSE, reference |-> "", target |-> "",
     navmode |-> 0]

\* ------------------------------------------------------- the state object

\* The fields of one PhysicsState.
MkState(ps, n, names, y, atm) ==
    [proto_state |-> ps, n |-> n, entity_names |-> names, array_rep |-> y,
     entities_with_atmospheres |-> atm]

\* No state object.
NoState == MkState(EmptyProto, 0, <<>>, <<>>, <<>>)

\* The result of a call: the exception it raised ("none" when it returned),
\* the value it returned and the state object as the call left it.
Result(err, val, st) == [err |-> err, val |-> val, st |-> st]

\* list.index(name): the first 0-based position, for a name in the list.
ListIndex(names, name) ==
    (CHOOSE i \in DOMAIN names :
        names[i] = name /\ \A j \in DOMAIN names : names[j] = name => i <= j) - 1

\* PhysicsState._name_to_index over the name table: NO_INDEX for the empty
\* name, the position of a listed name, NoEntityError for any other.
NameToIndexBy(names, name) ==
    IF name = "" THEN [err |-> "none", val |-> NO_INDEX]
    ELSE IF name \in Range(names)
         THEN [err |-> "none", val |-> ListIndex(names, name)]
         ELSE [err |-> "NoEntityError", val |-> NO_INDEX]

NameToIndex(self, name) == NameToIndexBy(self.entity_names, name)

\* A faulty decoding that lacks the NO_INDEX test: the sentinel indexes the
\* name table from its end.
IndexToName_NoSentinel(self, index) ==
    LET p == PyIndex(self.entity_names, ToInt(index)) IN
    IF p >= 0 /\ p < Len(self.entity_names)
    THEN At(self.entity_names, p)
    ELSE "<IndexError>"

\* PhysicsState._index_to_name / the landed_on getter's decoding: '' for
\* NO_INDEX, else the name table at the index as Python indexes a list.
IndexToName(self, index) ==
    LET i == ToInt(index) IN
    IF i = NO_INDEX THEN ""
    ELSE LET p == PyIndex(self.entity_names, i) IN
         IF p >= 0 /\ p < Len(self.entity_names)
         THEN At(self.entity_names, p)
         ELSE "<IndexError>"

\* The float stored for a mutable field of a snapshot entity (the loop body
\* of the snapshot-only constructor, given the resolved landed_on index).
ProtoValue(names, entity, field_name) ==
    IF field_name = "landed_on"
    THEN ToFloat(NameToIndexBy(names, entity.landed_on).val)
    ELSE IF field_name = "broken" THEN BoolToFloat(entity.broken)
    ELSE entity[field_name]

\* The buffer slot of entity `index` in the block of mutable field field_n.
Slot(n, field_n, index) == n * field_n + index

\* The y-vector the snapshot-only constructor fills: slot
\* n * field_n + entity_index holds field field_n of entity entity_index,
\* and the last two slots hold srb_time and time_acc.
BuildArray(ps, names) ==
    LET n == Len(ps.entities)
        size == n * K + N_SINGULAR_ELEMENTS
    IN [b \in 1..size |->
          IF b = size + SRB_TIME_INDEX + 1 THEN ps.srb_time
          ELSE IF b = size + TIME_ACC_INDEX + 1 THEN ps.time_acc
          ELSE LET fe == CHOOSE p \in (0..(K - 1)) \X (0..(n - 1)) :
                              Slot(n, p[1], p[2]) = b - 1
               IN ProtoValue(names, ps.entities[fe[2] + 1], MutableFields[fe[1] + 1])]

\* PhysicsState._y_component: the slice of one field's block.
YComponent(self, field_name) ==
    SubSeq(self.array_rep,
           FieldOrdering(field_name) * self.n + 1,
           (FieldOrdering(field_name) + 1) * self.n)

\* A faulty normalization that reduces the whole y-vector instead of the
\* heading slice.
NormalizeHeading_WholeArray(y, n) == [b \in DOMAIN y |-> y[b] % TwoPi]

\* np.mod(self.Heading, 2 * np.pi, out=self.Heading): every slot of the
\* heading slice is reduced into [0, 2 pi), in place.
NormalizeHeading(y, n) ==
    LET lo == FieldOrdering("heading") * n
        hi == (FieldOrdering("heading") + 1) * n
    IN [b \in DOMAIN y |-> IF b - 1 >= lo /\ b - 1 < hi THEN y[b] % TwoPi ELSE y[b]]

RECURSIVE AtmosphereScan(_, _)
\* The loop that collects the entities with an atmosphere, from 1-based i on.
AtmosphereScan(entities, i) ==
    IF i > Len(entities) THEN <<>>
    ELSE IF entities[i].atmosphere_scaling # 0 /\ entities[i].atmosphere_thickness # 0
         THEN <<i - 1>> \o AtmosphereScan(entities, i + 1)
         ELSE AtmosphereScan(entities, i + 1)

\* The name table of a snapshot.
EntityNames(ps) == [i \in 1..Len(ps.entities) |-> ps.entities[i].name]

\* PhysicsState(None, proto_state).
InitFromSnapshot(ps) ==
    LET names == EntityNames(ps)
        n == Len(ps.entities)
    IN IF \E i \in 1..n : NameToIndexBy(names, ps.entities[i].landed_on).err # "none"
       THEN Result("NoEntityError", 0, NoState)
       ELSE Result("none", 0,
                   MkState(ps, n, names, NormalizeHeading(BuildArray(ps, names), n),
                           AtmosphereScan(ps.entities, 1)))

\* A faulty constructor that reads time_acc from the srb_time slot.
InitFromBuffer_SwappedTail(y, ps) ==
    LET names == EntityNames(ps)
        n == Len(ps.entities)
        size == Len(y)
    IN IF size < N_SINGULAR_ELEMENTS THEN Result("IndexError", 0, NoState)
       ELSE IF (size - N_SINGULAR_ELEMENTS) % K # 0
            THEN Result("AssertionError", 0, NoState)
       ELSE IF (size - N_SINGULAR_ELEMENTS) \div K # n
            THEN Result("AssertionError", 0, NoState)
       ELSE Result("none", 0,
                   MkState([ps EXCEPT !.srb_time = At(y, size + SRB_TIME_INDEX),
                                      !.time_acc = At(y, size + SRB_TIME_INDEX)],
                           n, names, NormalizeHeading(y, n),
                           AtmosphereScan(ps.entities, 1)))

\* A faulty constructor that checks the size modulo k only, not the entity
\* count.
InitFromBuffer_NoCountCheck(y, ps) ==
    LET names == EntityNames(ps)
        n == Len(ps.entities)
        size == Len(y)
    IN IF size < N_SINGULAR_ELEMENTS THEN Result("IndexError", 0, NoState)
       ELSE IF (size - N_SINGULAR_ELEMENTS) % K # 0
            THEN Result("AssertionError", 0, NoState)
       ELSE Result("none", 0,
                   MkState([ps EXCEPT !.srb_time = At(y, size + SRB_TIME_INDEX),
                                      !.time_acc = At(y, size + TIME_ACC_INDEX)],
                           n, names, NormalizeHeading(y, n),
                           AtmosphereScan(ps.entities, 1)))

\* PhysicsState(y, proto_state) for a 1-D array y.
InitFromBuffer(y, ps) ==
    LET names == EntityNames(ps)
        n == Len(ps.entities)
        size == Len(y)
    IN IF size < N_SINGULAR_ELEMENTS THEN Result("IndexError", 0, NoState)
       ELSE IF (size - N_SINGULAR_ELEMENTS) % K # 0
            THEN Result("AssertionError", 0, NoState)
       ELSE IF (size - N_SINGULAR_ELEMENTS) \div K # n
            THEN Result("AssertionError", 0, NoState)
       ELSE Result("none", 0,
                   MkState([ps EXCEPT !.srb_time = At(y, size + SRB_TIME_INDEX),
                                      !.time_acc = At(y, size + TIME_ACC_INDEX)],
                           n, names, NormalizeHeading(y, n),
                           AtmosphereScan(ps.entities, 1)))

\* ---------------------------------------------------------------- the views

\* entity_view_unchanging_fget: the owned snapshot's entity, field `name`.
ViewGetUnchanging(self, index, name) == self.proto_state.entities[index + 1][name]

\* entity_view_unchanging_fset: written into the owned snapshot's entity.
ViewSetUnchanging(self, index, name, val) ==
    [self EXCEPT !.proto_state.entities[index + 1][name] = val]

\* A faulty addressing that lays the buffer out entity by entity.
ViewSlot_EntityMajor(self, index, field_name) ==
    K * index + FieldOrdering(field_name)

\* The buffer slot a view bound to `index` addresses for a mutable field.
ViewSlot(self, index, field_name) ==
    Slot(self.n, FieldOrdering(field_name), index)

\* entity_view_mutable_fget of a float field.
ViewGetFloat(self, index, field_name) ==
    At(self.array_rep, ViewSlot(self, index, field_name))

\* entity_view_mutable_fset of a float field.
ViewSetFloat(self, index, field_name, val) ==
    [self EXCEPT !.array_rep = Put(@, ViewSlot(self, index, field_name), val)]

\* entity_view_mutable_fget of the bool field.
ViewGetBool(self, index, field_name) ==
    ToBool(At(self.array_rep, ViewSlot(self, index, field_name)))

\* entity_view_mutable_fset of the bool field: the bool is stored as a float.
ViewSetBool(self, index, field_name, val) ==
    [self EXCEPT !.array_rep =
        Put(@, ViewSlot(self, index, field_name), BoolToFloat(val))]

\* entity_view_mutable_fget of landed_on: the stored index, as a name.
ViewGetLandedOn(self, index) ==
    IndexToName(self, At(self.array_rep, ViewSlot(self, index, "landed_on")))

\* A faulty landed_on setter that clears the slot before it resolves the name.
ViewSetLandedOn_ClobberOnError(self, index, val) ==
    LET r == NameToIndexBy(self.entity_names, val)
        cleared == [self EXCEPT !.array_rep =
                       Put(@, Slot(self.n, FieldOrdering("landed_on"), index),
                           ToFloat(NO_INDEX))]
    IN IF r.err # "none" THEN Result(r.err, 0, cleared)
       ELSE Result("none", 0,
                   [self EXCEPT !.array_rep =
                       Put(@, Slot(self.n, FieldOrdering("landed_on"), index),
                           ToFloat(r.val))])

\* entity_view_mutable_fset of landed_on: the name is resolved first, and the
\* slot is written only when that did not raise.
ViewSetLandedOn(self, index, val) ==
    LET r == NameToIndex(self, val) IN
    IF r.err # "none" THEN Result(r.err, 0, self)
    ELSE Result("none", 0,
                [self EXCEPT !.array_rep =
                    Put(@, ViewSlot(self, index, "landed_on"), ToFloat(r.val))])

\* Reading field `name` through the view self[index].
ViewGet(self, index, name) ==
    IF name \in Range(UnchangingFields) THEN ViewGetUnchanging(self, index, name)
    ELSE IF name = "landed_on" THEN ViewGetLandedOn(self, index)
    ELSE IF name = "broken" THEN ViewGetBool(self, index, name)
    ELSE ViewGetFloat(self, index, name)

AllFields == Range(UnchangingFields) \cup Range(MutableFields)

\* Every field of the view self[index], as reading them one by one gives.
View(self, index) == [name \in AllFields |-> ViewGet(self, index, name)]

\* Writing element i of a per-field slice (state.X[i] = val, ...): the slice
\* is a view of the buffer, so the write lands in the buffer.
SliceSet(self, field_name, i, val) ==
    [self EXCEPT !.array_rep = Put(@, FieldOrdering(field_name) * self.n + i, val)]

\* ---------------------------------------------------- PhysicsState methods

\* PhysicsState.y0.
Y0(self) == self.array_rep

\* PhysicsState.as_proto: a copy of the owned snapshot with every mutable
\* field of every entity read through the views.
AsProto(self) ==
    [self.proto_state EXCEPT !.entities =
        [i \in 1..Len(@) |->
            [name \in AllFields |->
                IF name \in Range(MutableFields)
                THEN ViewGet(self, i - 1, name)
                ELSE @[i][name]]]]

\* An index argument: an int or a str.
IntIndex(i) == [kind |-> "int", i |-> i, name |-> ""]

StrIndex(name) == [kind |-> "str", i |-> 0, name |-> name]

\* The index resolution of __getitem__ and __setitem__: an int as it is, a
\* str through list.index, which raises ValueError for a name not listed.
ResolveIndex(self, index) ==
    IF index.kind = "int" THEN [err |-> "none", val |-> index.i]
    ELSE IF index.name \in Range(self.entity_names)
         THEN [err |-> "none", val |-> ListIndex(self.entity_names, index.name)]
         ELSE [err |-> "ValueError", val |-> 0]

\* PhysicsState.__getitem__: the index the returned view is bound to.
GetItem(self, index) ==
    LET r == ResolveIndex(self, index) IN Result(r.err, r.val, self)

\* A source of __setitem__: an Entity over a record, or a view; `same` says
\* that the view's creator is the destination state itself.
RecordSource(e) == [view |-> FALSE, same |-> FALSE, index |-> 0, e |-> e]

ViewSource(creator, same, index) ==
    [view |-> TRUE, same |-> same, index |-> index, e |-> View(creator, index)]

\* A faulty replace that assigns the unchanging fields as well.
CopyMutable_AndUnchanging(self, i, e) ==
    LET s0 == [self EXCEPT !.proto_state.entities[i + 1] =
                  [f \in AllFields |-> IF f \in Range(UnchangingFields) THEN e[f] ELSE @[f]]]
        s8 == [s0 EXCEPT !.array_rep =
                  [b \in DOMAIN @ |->
                      IF \E f \in NumericFields : b - 1 = Slot(self.n, FieldOrdering(f), i)
                      THEN e[CHOOSE f \in NumericFields :
                                b - 1 = Slot(self.n, FieldOrdering(f), i)]
                      ELSE @[b]]]
        r9 == NameToIndexBy(self.entity_names, e.landed_on)
    IN IF r9.err # "none" THEN Result(r9.err, 0, s8)
       ELSE Result("none", 0,
                   [s8 EXCEPT !.array_rep =
                       Put(Put(@, Slot(self.n, FieldOrdering("landed_on"), i),
                               ToFloat(r9.val)),
                           Slot(self.n, FieldOrdering("broken"), i),
                           BoolToFloat(e.broken))])

\* The tuple assignment of __setitem__ into the view entity = self[i]: the
\* targets are assigned left to right, and the landed_on target raises when
\* the name does not resolve, after the eight before it have been written.
CopyMutable(self, i, e) ==
    LET s1 == ViewSetFloat(self, i, "x", e.x)
        s2 == ViewSetFloat(s1, i, "y", e.y)
        s3 == ViewSetFloat(s2, i, "vx", e.vx)
        s4 == ViewSetFloat(s3, i, "vy", e.vy)
        s5 == ViewSetFloat(s4, i, "heading", e.heading)
        s6 == ViewSetFloat(s5, i, "spin", e.spin)
        s7 == ViewSetFloat(s6, i, "fuel", e.fuel)
        s8 == ViewSetFloat(s7, i, "throttle", e.throttle)
        r9 == ViewSetLandedOn(s8, i, e.landed_on)
    IN IF r9.err # "none" THEN r9
       ELSE Result("none", 0, ViewSetBool(r9.st, i, "broken", e.broken))

\* The early return of __setitem__: the source is a view whose creator is
\* this state.
IsOwnView(val) == val.view /\ val.same

\* PhysicsState.__setitem__.
SetItem(self, index, val) ==
    IF IsOwnView(val) THEN Result("none", 0, self)
    ELSE LET r == ResolveIndex(self, index) IN
         IF r.err # "none" THEN Result(r.err, 0, self)
         ELSE CopyMutable(self, r.val, val.e)

\* A faulty srb_time setter that writes the snapshot scalar only.
SetSrbTime_ProtoOnly(self, val) == [self EXCEPT !.proto_state.srb_time = val]

\* The srb_time and time_acc setters: the snapshot scalar and the buffer slot.
SetSrbTime(self, val) ==
    [self EXCEPT !.proto_state.srb_time = val,
                 !.array_rep = Put(@, Len(@) + SRB_TIME_INDEX, val)]

SetTimeAcc(self, new_acc) ==
    [self EXCEPT !.proto_state.time_acc = new_acc,
                 !.array_rep = Put(@, Len(@) + TIME_ACC_INDEX, new_acc)]

\* The srb_time and time_acc getters.
GetSrbTime(self) == self.proto_state.srb_time

GetTimeAcc(self) == self.proto_state.time_acc

\* What PhysicsState.craft returns for "no craft".
None == "<None>"

\* PhysicsState.craft.
Craft(self) ==
    IF HABITAT \notin Range(self.entity_names) /\ AYSE \notin Range(self.entity_names)
    THEN Result("none", None, self)
    ELSE IF AYSE \notin Range(self.entity_names)
    THEN Result("none", HABITAT, self)
    ELSE LET hab == NameToIndex(self, HABITAT)
             ayse == NameToIndex(self, AYSE)
         IN IF hab.err # "none" THEN Result(hab.err, None, self)
            ELSE IF At(YComponent(self, "landed_on"), hab.val) = ToFloat(ayse.val)
                 THEN Result("none", AYSE, self)
                 ELSE Result("none", HABITAT, self)

\* ------------------------------------------------------------------ inputs

\* The values written into float fields, and into srb_time and time_acc.
WriteVals == {9}

\* The values stored through a per-field slice.
SliceVals == {-4}

\* The names written as landed_on or looked up: the names snapshots use and
\* one that no snapshot has.
LookupNames == Names \cup {"Moon"}

\* The values written into an unchanging field.
UnchangingVals(name) ==
    IF name = "name" THEN {AYSE, "Moon"}
    ELSE IF name = "artificial" THEN {TRUE}
    ELSE {0}

\* A second state, owning other entities: its views are sources of replace.
OtherState ==
    InitFromSnapshot(
        [EmptyProto EXCEPT !.entities =
            <<MkEntity("Moon", 1, ""), MkEntity(AYSE, 3, "Moon"),
              MkEntity(HABITAT, 2, AYSE)>>]).st

\* The sources of an entity replace on `self`.
Sources(self) ==
    {RecordSource(MkEntity(HABITAT, 1, "")), RecordSource(MkEntity("Probe", 2, "Moon"))}
    \cup {ViewSource(self, TRUE, i) : i \in 0..(self.n - 1)}
    \cup {ViewSource(OtherState, FALSE, i) : i \in 1..2}

\* The index arguments of lookup and replace on `self`.
Indices(self) ==
    {IntIndex(i) : i \in 0..(self.n - 1)} \cup {StrIndex(nm) : nm \in {HABITAT, "Moon"}}

\* The y-vector after an integrator step of size d: positions, velocities,
\* heading, spin, fuel and throttle have moved, landed_on and broken have
\* not, the burn timer has run down and time_acc is as it was.
Drift(y, n, d) ==
    [b \in DOMAIN y |->
        IF b - 1 < n * FieldOrdering("landed_on") THEN y[b] + d
        ELSE IF b = Len(y) + SRB_TIME_INDEX + 1 THEN y[b] - 1
        ELSE y[b]]

\* y cut or zero-padded to `size` slots.
Resize(y, size) == [b \in 1..size |-> IF b <= Len(y) THEN y[b] ELSE 0]

\* The sizes of the arrays handed to the constructor besides the right one.
WrongSizes(y) ==
    {s \in {0, 1, Len(y) - K, Len(y) - 1, Len(y) + 1, Len(y) + K} : s >= 0}

\* The arrays handed to the constructor together with the snapshot: y0()
\* itself, an integrator's result, or an array of another size.
IntegratorBuffers(y, n) ==
    {y} \cup {Drift(y, n, d) : d \in {3, -11}} \cup {Resize(y, s) : s \in WrongSizes(y)}

\* ------------------------------------------------------------------- state

VARIABLES
    proto_state,                \* PhysicsState._proto_state
    n,                          \* PhysicsState._n
    entity_names,               \* PhysicsState._entity_names
    array_rep,                  \* PhysicsState._array_rep
    entities_with_atmospheres,  \* PhysicsState._entities_with_atmospheres
    alive,                      \* a state object has been constructed
    S,                          \* the snapshot given to the constructor
    err,                        \* the exception the last call raised, or "none"
    last,                       \* the last call and its arguments
    prev,                       \* the state object before the last call
    steps                       \* calls made on the state object

vars ==
    <<proto_state, n, entity_names, array_rep, entities_with_atmospheres,
      alive, S, err, last, prev, steps>>

\* The state object the variables hold.
Self == MkState(proto_state, n, entity_names, array_rep, entities_with_atmospheres)

\* The variables take the fields of state object st.
Install(st) ==
    /\ proto_state' = st.proto_state
    /\ n' = st.n
    /\ entity_names' = st.entity_names
    /\ array_rep' = st.array_rep
    /\ entities_with_atmospheres' = st.entities_with_atmospheres

\* The record of a call.
Call(op, index, field, num, str, flag, src, y) ==
    [op |-> op, index |-> index, field |-> field, num |-> num, str |-> str,
     flag |-> flag, src |-> src, y |-> y]

NoSource == RecordSource(MkEntity("", 1, ""))

NoCall == Call("none", IntIndex(0), "", 0, "", FALSE, NoSource, <<>>)

Init ==
    /\ proto_state = EmptyProto
    /\ n = 0
    /\ entity_names = <<>>
    /\ array_rep = <<>>
    /\ entities_with_atmospheres = <<>>
    /\ alive = FALSE
    /\ S = EmptyProto
    /\ err = "none"
    /\ last = NoCall
    /\ prev = NoState
    /\ steps = 0

\* A call on the state object that left it as r.st and raised r.err.
Step(r, call) ==
    /\ Install(r.st)
    /\ err' = r.err
    /\ last' = call
    /\ prev' = Self
    /\ steps' = steps + 1
    /\ UNCHANGED <<alive, S>>

Live == alive /\ steps < MaxSteps

\* ----------------------------------------------------------------- actions

\* PhysicsState(None, ps): the first state object is built from a snapshot.
ConstructFromSnapshot ==
    /\ ~alive
    /\ \E ps \in Snapshots :
          LET r == InitFromSnapshot(ps) IN
          /\ Install(r.st)
          /\ alive' = (r.err = "none")
          /\ S' = ps
          /\ err' = r.err
          /\ last' = [NoCall EXCEPT !.op = "init_snapshot"]
          /\ prev' = NoState
          /\ steps' = 0

\* PhysicsState(y, S): the state object is superseded by one built from an
\* array and the snapshot; when the constructor raises, the old one stays.
ConstructFromBuffer ==
    /\ Live
    /\ \E y \in IntegratorBuffers(Y0(Self), n) :
          LET r == InitFromBuffer(y, S) IN
          Step(Result(r.err, 0, IF r.err = "none" THEN r.st ELSE Self),
               [NoCall EXCEPT !.op = "init_buffer", !.y = y])

\* state[i].f = v for a float field f.
WriteFloat ==
    /\ Live
    /\ \E i \in 0..(n - 1), f \in NumericFields, v \in WriteVals :
          Step(Result("none", 0, ViewSetFloat(Self, i, f, v)),
               [NoCall EXCEPT !.op = "view_set", !.index = IntIndex(i),
                              !.field = f, !.num = v])

\* state[i].broken = b.
WriteBool ==
    /\ Live
    /\ \E i \in 0..(n - 1), b \in BOOLEAN :
          Step(Result("none", 0, ViewSetBool(Self, i, "broken", b)),
               [NoCall EXCEPT !.op = "view_set", !.index = IntIndex(i),
                              !.field = "broken", !.flag = b])

\* state[i].landed_on = name.
WriteLandedOn ==
    /\ Live
    /\ \E i \in 0..(n - 1), name \in LookupNames \cup {""} :
          Step(ViewSetLandedOn(Self, i, name),
               [NoCall EXCEPT !.op = "view_set", !.index = IntIndex(i),
                              !.field = "landed_on", !.str = name])

\* state[i].f = v for an unchanging field f.
WriteUnchanging ==
    /\ Live
    /\ \E i \in 0..(n - 1), f \in Range(UnchangingFields) :
          \E v \in UnchangingVals(f) :
             Step(Result("none", 0, ViewSetUnchanging(Self, i, f, v)),
                  [NoCall EXCEPT !.op = "view_set_unchanging",
                                 !.index = IntIndex(i), !.field = f])

\* state.X[i] = v, state.Heading[i] = v, ...: a store through a slice.
WriteSlice ==
    /\ Live
    /\ \E i \in 0..(n - 1), f \in NumericFields, v \in SliceVals :
          Step(Result("none", 0, SliceSet(Self, f, i, v)),
               [NoCall EXCEPT !.op = "slice_set", !.index = IntIndex(i),
                              !.field = f, !.num = v])

\* state[index] = val.
Replace ==
    /\ Live
    /\ \E index \in Indices(Self), val \in Sources(Self) :
          Step(SetItem(Self, index, val),
               [NoCall EXCEPT !.op = "setitem", !.index = index, !.src = val])

\* state[index].
Lookup ==
    /\ Live
    /\ \E index \in {StrIndex(nm) : nm \in LookupNames} :
          LET r == GetItem(Self, index) IN
          Step(r, [NoCall EXCEPT !.op = "getitem", !.index = index, !.num = r.val])

\* state.srb_time = v.
WriteSrbTime ==
    /\ Live
    /\ \E v \in WriteVals :
          Step(Result("none", 0, SetSrbTime(Self, v)),
               [NoCall EXCEPT !.op = "srb_time", !.num = v])

\* state.time_acc = v.
WriteTimeAcc ==
    /\ Live
    /\ \E v \in WriteVals :
          Step(Result("none", 0, SetTimeAcc(Self, v)),
               [NoCall EXCEPT !.op = "time_acc", !.num = v])

\* state.craft.
ReadCraft ==
    /\ Live
    /\ LET r == Craft(Self) IN
       Step(r, [NoCall EXCEPT !.op = "craft", !.str = r.val])

Next ==
    \/ ConstructFromSnapshot
    \/ ConstructFromBuffer
    \/ WriteFloat
    \/ WriteBool
    \/ WriteLandedOn
    \/ WriteUnchanging
    \/ WriteSlice
    \/ Replace
    \/ Lookup
    \/ WriteSrbTime
    \/ WriteTimeAcc
    \/ ReadCraft

Spec == Init /\ [][Next]_vars

\* ------------------------------------------------------------------ claims

\* The state object is as PhysicsState(None, S) left it.
FreshFromSnapshot == alive /\ last.op = "init_snapshot"

\* a is b reduced modulo 2 pi: in [0, 2 pi) and a whole number of turns away.
IsReduced(a, b) ==
    /\ a >= 0
    /\ a < TwoPi
    /\ \E q \in -4..4 : b = a + q * TwoPi

\* C1: PhysicsState(None, S).as_proto() has S's entities in S's order, with
\* every unchanging field, every scalar global, every mutable numeric field
\* and the broken flag equal to S's, except that heading is S's heading
\* reduced modulo 2 pi, and with every landed_on the same name as in S.
C1_SnapshotRoundTrip ==
    FreshFromSnapshot =>
        LET P == AsProto(Self) IN
        /\ Len(P.entities) = Len(S.entities)
        /\ \A i \in 1..Len(S.entities) :
              /\ \A f \in Range(UnchangingFields) : P.entities[i][f] = S.entities[i][f]
              /\ \A f \in NumericFields \ {"heading"} :
                    P.entities[i][f] = S.entities[i][f]
              /\ P.entities[i].broken = S.entities[i].broken
              /\ IsReduced(P.entities[i].heading, S.entities[i].heading)
              /\ P.entities[i].landed_on = S.entities[i].landed_on
        /\ \A g \in {"timestamp", "srb_time", "time_acc", "parachute_deployed",
                     "reference", "target", "navmode"} : P[g] = S[g]

\* A snapshot of two entities, one landed on the other, one with a heading
\* beyond a full turn and one broken, has been made a state.
C1_Witness ==
    /\ FreshFromSnapshot
    /\ n = 2
    /\ \E i \in 1..2 : S.entities[i].landed_on \notin {"", S.entities[i].name}
    /\ \E i \in 1..2 : S.entities[i].heading >= TwoPi
    /\ \E i \in 1..2 : S.entities[i].broken

\* The state object was rebuilt from its own y0() and the snapshot S.
RebuiltFromY0 == alive /\ last.op = "init_buffer" /\ last.y = Y0(prev)

\* C2 as stated: the buffer of a state of n entities has n * k + 2 slots,
\* and the state rebuilt from y0() and the snapshot S the state was built
\* from shows through its views, for every field, the value the state
\* showed, and has the same srb_time and time_acc.
C2_RebuildIdentical ==
    /\ alive => Len(Y0(Self)) = n * K + 2
    /\ RebuiltFromY0 =>
          /\ err = "none"
          /\ n = prev.n
          /\ \A i \in 0..(n - 1), f \in AllFields :
                ViewGet(Self, i, f) = ViewGet(prev, i, f)
          /\ GetSrbTime(Self) = GetSrbTime(prev)
          /\ GetTimeAcc(Self) = GetTimeAcc(prev)

\* C2, amended: the buffer has n * k + 2 slots, and the state rebuilt from
\* y0() and S has the srb_time and time_acc of the state, every mutable
\* field but heading equal to the state's, heading equal to the state's
\* heading reduced modulo 2 pi, and every unchanging field equal to S's.
C2_BufferRoundTrip ==
    /\ alive => Len(Y0(Self)) = n * K + 2
    /\ RebuiltFromY0 =>
          /\ err = "none"
          /\ n = prev.n
          /\ \A i \in 0..(n - 1) :
                /\ \A f \in Range(MutableFields) \ {"heading"} :
                      ViewGet(Self, i, f) = ViewGet(prev, i, f)
                /\ IsReduced(ViewGet(Self, i, "heading"), ViewGet(prev, i, "heading"))
                /\ \A f \in Range(UnchangingFields) :
                      ViewGet(Self, i, f) = S.entities[i + 1][f]
          /\ GetSrbTime(Self) = GetSrbTime(prev)
          /\ GetTimeAcc(Self) = GetTimeAcc(prev)

\* A state of two entities, one of them landed and one with a heading beyond
\* a full turn written through its view, was rebuilt from its y0().
C2_Witness ==
    /\ RebuiltFromY0
    /\ err = "none"
    /\ n = 2
    /\ \E i \in 0..1 : ViewGet(Self, i, "landed_on") # ""
    /\ \E i \in 0..1 : ViewGet(prev, i, "heading") >= TwoPi

\* C3: in every state, reading a mutable numeric field f through the view
\* state[i] gives buffer slot block(f) * n + i, which is element i of the
\* slice of f, and reading an unchanging field gives the owned snapshot's
\* field; a value written through a view is read through the slice, and a
\* value written through a slice is read through the view.
C3_ViewsAliasBuffer ==
    alive =>
        /\ \A i \in 0..(n - 1) :
              /\ \A f \in NumericFields :
                    /\ ViewGet(Self, i, f) = At(array_rep, FieldOrdering(f) * n + i)
                    /\ ViewGet(Self, i, f) = At(YComponent(Self, f), i)
              /\ \A f \in Range(UnchangingFields) :
                    ViewGet(Self, i, f) = proto_state.entities[i + 1][f]
        /\ \A f \in NumericFields : Len(YComponent(Self, f)) = n
        /\ (last.op = "view_set" /\ last.field \in NumericFields) =>
              At(YComponent(Self, last.field), last.index.i) = last.num
        /\ last.op = "slice_set" =>
              ViewGet(Self, last.index.i, last.field) = last.num

\* A value was stored through the slice of a field, at the second of two
\* entities.
C3_Witness ==
    /\ alive
    /\ last.op = "slice_set"
    /\ n = 2
    /\ last.index.i = 1
    /\ last.field = "heading"

\* The active craft as the entity set and the landed_on values decide it.
ExpectedCraft(self) ==
    LET hab == HABITAT \in Range(self.entity_names)
        ayse == AYSE \in Range(self.entity_names)
    IN IF ~hab /\ ~ayse THEN None
       ELSE IF hab /\ ~ayse THEN HABITAT
       ELSE IF ayse /\ ~hab THEN AYSE
       ELSE IF ViewGet(self, ListIndex(self.entity_names, HABITAT), "landed_on") = AYSE
            THEN AYSE
            ELSE HABITAT

\* C4: craft never fails and is none when neither Habitat nor AYSE is an
\* entity, the one that is an entity when only one is, and, when both are,
\* AYSE if Habitat is landed on AYSE and Habitat otherwise.
C4_CraftTotal ==
    alive => (Craft(Self).err = "none" /\ Craft(Self).val = ExpectedCraft(Self))

\* The last call wrote landed_on through the view state[last.index.i].
LandedOnWritten == alive /\ last.op = "view_set" /\ last.field = "landed_on"

\* C5: writing through a view a landed_on name that is not empty and not an
\* entity's name raises NoEntityError and leaves every slot of the buffer as
\* it was; writing the empty name stores the sentinel -1, and writing an
\* entity's name stores that entity's index.
C5_LandedOnWrite ==
    LandedOnWritten =>
        LET slot == FieldOrdering("landed_on") * n + last.index.i IN
        IF last.str = ""
        THEN /\ err = "none"
             /\ At(array_rep, slot) = -1 * Scale
        ELSE IF last.str \in Range(prev.entity_names)
        THEN /\ err = "none"
             /\ \E j \in 0..(n - 1) :
                   /\ At(entity_names, j) = last.str
                   /\ At(array_rep, slot) = j * Scale
        ELSE /\ err = "NoEntityError"
             /\ array_rep = prev.array_rep

\* A name that is no entity's was written as the landed_on of an entity that
\* was landed.
C5_Witness ==
    /\ LandedOnWritten
    /\ last.str # ""
    /\ last.str \notin Range(entity_names)
    /\ ViewGet(prev, last.index.i, "landed_on") # ""

\* C6: state[name], state[name] = e and the landed_on write each raise
\* NoEntityError, and no other error, when the name is no entity's name.
C6_LookupRaisesNoEntityError ==
    /\ (/\ alive
        /\ last.op \in {"getitem", "setitem"}
        /\ last.index.kind = "str"
        /\ last.index.name \notin Range(prev.entity_names))
       => err = "NoEntityError"
    /\ (/\ LandedOnWritten
        /\ last.str # ""
        /\ last.str \notin Range(prev.entity_names))
       => err = "NoEntityError"

\* The last call was state[j] = e, for an integer j, and it returned.
Replaced == alive /\ last.op = "setitem" /\ last.index.kind = "int" /\ err = "none"

\* The source of the last replace is a view of the destination state at the
\* destination index.
SameSlot == last.src.view /\ last.src.same /\ last.src.index = last.index.i

\* C7: after state[j] = e, for e an Entity record, a view of another state
\* or a view of the same state at any index, every mutable field of entity
\* j is the field of e as read before the call; only for a view of the same
\* state at index j is the copy skipped, and then nothing changes.
C7_ReplaceCopiesMutable ==
    Replaced =>
        /\ \A f \in Range(MutableFields) :
              ViewGet(Self, last.index.i, f) = last.src.e[f]
        /\ SameSlot => Self = prev

\* C8 as stated: after state[j] = e, for e an Entity record or a view of
\* another state, the unchanging fields of entity j are those of e.
C8_ReplaceCopiesUnchanging ==
    (Replaced /\ ~(last.src.view /\ last.src.same)) =>
        \A f \in Range(UnchangingFields) :
            ViewGet(Self, last.index.i, f) = last.src.e[f]

\* C8, amended: state[index] = e copies mutable fields only; whatever the
\* source and whether or not the call returns, the unchanging fields of
\* every entity, and the whole owned snapshot, are what they were before.
C8_ReplaceKeepsUnchanging ==
    (alive /\ last.op = "setitem") =>
        /\ proto_state = prev.proto_state
        /\ \A i \in 0..(n - 1), f \in Range(UnchangingFields) :
              ViewGet(Self, i, f) = ViewGet(prev, i, f)

\* An entity was replaced from a source of another name and another mass.
C8_Witness ==
    /\ Replaced
    /\ ~(last.src.view /\ last.src.same)
    /\ last.src.e.name # ViewGet(Self, last.index.i, "name")
    /\ last.src.e.mass # ViewGet(Self, last.index.i, "mass")
    /\ last.src.e.x = ViewGet(Self, last.index.i, "x")

\* C9: PhysicsState(y, S) returns only for an array of exactly n * k + 2
\* slots, n the entity count of S; for any other size, a size with
\* (size - 2) a multiple of k included, it raises and the state object there
\* was stays; every state object has (size - 2) mod k = 0 and
\* (size - 2) / k = n.
C9_BufferShape ==
    /\ alive =>
          /\ (Len(array_rep) - 2) % K = 0
          /\ (Len(array_rep) - 2) \div K = n
          /\ n = Len(proto_state.entities)
    /\ (alive /\ last.op = "init_buffer") =>
          /\ err = "none" <=> Len(last.y) = Len(S.entities) * K + 2
          /\ err # "none" => (err \in {"AssertionError", "IndexError"} /\ Self = prev)

\* The constructor was given an array of one entity more or less than the
\* snapshot has, and raised.
C9_Witness ==
    /\ alive
    /\ last.op = "init_buffer"
    /\ err = "AssertionError"
    /\ Len(last.y) >= 2
    /\ (Len(last.y) - 2) % K = 0
    /\ n = 2

\* C10: in every state the snapshot scalar srb_time is buffer slot [-2] and
\* the snapshot scalar time_acc is buffer slot [-1]; after a write of either,
\* the getter, the buffer and the externalized snapshot show the value
\* written.
C10_TrailingMirrored ==
    alive =>
        /\ proto_state.srb_time = At(array_rep, Len(array_rep) - 2)
        /\ proto_state.time_acc = At(array_rep, Len(array_rep) - 1)
        /\ last.op = "srb_time" =>
              /\ GetSrbTime(Self) = last.num
              /\ At(Y0(Self), Len(array_rep) - 2) = last.num
              /\ AsProto(Self).srb_time = last.num
        /\ last.op = "time_acc" =>
              /\ GetTimeAcc(Self) = last.num
              /\ At(Y0(Self), Len(array_rep) - 1) = last.num
              /\ AsProto(Self).time_acc = last.num

\* A state was built from the snapshot and an array whose srb_time slot is
\* not the snapshot's srb_time.
C10_Witness ==
    /\ alive
    /\ last.op = "init_buffer"
    /\ err = "none"
    /\ At(last.y, Len(last.y) - 2) # S.srb_time
    /\ GetSrbTime(Self) = At(last.y, Len(last.y) - 2)

\* The indices whose entity, read through its view, has an atmosphere.
WithAtmosphere ==
    {i \in 0..(n - 1) : /\ ViewGet(Self, i, "atmosphere_thickness") # 0
                        /\ ViewGet(Self, i, "atmosphere_scaling") # 0}

\* C11: in every state of a constructed object, after any view writes and
\* entity replaces, Atmospheres is the increasing list of exactly the indices
\* whose entity has a nonzero atmosphere_thickness and a nonzero
\* atmosphere_scaling as its view shows them.
C11_AtmospheresCurrent ==
    alive =>
        /\ Range(entities_with_atmospheres) = WithAtmosphere
        /\ \A a, b \in DOMAIN entities_with_atmospheres :
              a < b => entities_with_atmospheres[a] < entities_with_atmospheres[b]

\* A constructor call has returned a state object.
Constructed == alive /\ last.op \in {"init_snapshot", "init_buffer"} /\ err = "none"

\* The y-vector the constructor had before it normalized the headings: the
\* one built from the snapshot, or the one passed in.
Ingested == IF last.op = "init_snapshot" THEN BuildArray(S, EntityNames(S)) ELSE last.y

\* The 0-based buffer slots of the heading block.
HeadingSlots ==
    {b \in 0..(Len(array_rep) - 1) :
        /\ b >= FieldOrdering("heading") * n
        /\ b < (FieldOrdering("heading") + 1) * n}

C13_ReplaceAllOrNothing ==
    (/\ alive
     /\ last.op = "setitem"
     /\ err = "NoEntityError"
     /\ last.src.e.landed_on # ""
     /\ last.src.e.landed_on \notin Range(prev.entity_names))
    => /\ array_rep = prev.array_rep
       /\ proto_state = prev.proto_state

\* C14: in every state of a constructed object, for every index i the
\* lookup state[state[i].name] returns the view bound to i, and every
\* non-empty landed_on of the externalized snapshot is the name of an entity
\* of that externalized snapshot.
C14_NameTableConsistent ==
    alive =>
        /\ \A i \in 0..(n - 1) :
              LET r == GetItem(Self, StrIndex(ViewGet(Self, i, "name")))
              IN r.err = "none" /\ r.val = i
        /\ LET P == AsProto(Self) IN
           \A i \in 1..Len(P.entities) :
              P.entities[i].landed_on # "" =>
                 \E j \in 1..Len(P.entities) :
                    P.entities[j].name = P.entities[i].landed_on

====
